---------------------------- MODULE Spec2Model ----------------------------
(***************************************************************************)
(* A model of the DSP core of noaa-apt (src/src/dsp.rs): rational          *)
(* resampling, direct-form FIR filtering, Kaiser-windowed lowpass and      *)
(* Hilbert designs and AM envelope demodulation.                           *)
(*                                                                         *)
(* Numbers.  A Signal is a Vec<f32>.  A sample is modelled as a fixed-     *)
(* point integer counting units of 1/FxOne; products and quotients are     *)
(* truncated toward zero, which keeps the sign symmetry of IEEE-754        *)
(* arithmetic (x*(-y) = -(x*y)).  Real parameters that the callers pass    *)
(* (delta_w, cutout) are rationals [num, den]; atten is a whole number of  *)
(* decibels.  Vectors are 0-indexed in the source; At(s, k) reads index k. *)
(***************************************************************************)
EXTENDS Integers, Sequences, FiniteSets, TLC

(***************************************************************************)
(* Bounds of the model.                                                    *)
(***************************************************************************)
MaxLen == 4
MaxTaps == 2
MaxL == 3
MaxM == 3
MaxRate == 3

(***************************************************************************)
(* Fixed-point arithmetic standing for f32 arithmetic.                     *)
(***************************************************************************)
FxOne == 1000
PiFx == 3142

Abs(a) == IF a < 0 THEN -a ELSE a

\* Rust's integer division and f32 rounding are symmetric in the sign.
TruncDiv(a, b) ==
    IF (a >= 0) = (b > 0) THEN Abs(a) \div Abs(b) ELSE -(Abs(a) \div Abs(b))

\* Rust's % on signed integers: the remainder takes the sign of the dividend.
RustRem(a, b) == a - b * TruncDiv(a, b)

\* f32::ceil of the quotient a / b, b > 0.
CeilDiv(a, b) == -((-a) \div b)

FxMul(a, b) == TruncDiv(a * b, FxOne)
FxDiv(a, b) == TruncDiv(a * FxOne, b)

RECURSIVE ISqrtIn(_, _, _)
ISqrtIn(v, lo, hi) ==
    IF lo >= hi THEN lo
    ELSE LET mid == (lo + hi + 1) \div 2
         IN IF mid * mid <= v THEN ISqrtIn(v, mid, hi) ELSE ISqrtIn(v, lo, mid - 1)

\* f32::sqrt on a non-negative value.
FxSqrt(a) == ISqrtIn(a * FxOne, 0, 46340)

FxPow5(y) == FxMul(FxMul(FxMul(FxMul(y, y), y), y), y)

RECURSIVE Pow04In(_, _, _)
Pow04In(x2, lo, hi) ==
    IF lo >= hi THEN lo
    ELSE LET mid == (lo + hi) \div 2
         IN IF FxPow5(mid) >= x2 THEN Pow04In(x2, lo, mid) ELSE Pow04In(x2, mid + 1, hi)

\* f32::powf(x, 0.4) for a whole number x >= 0: the fifth root of x^2.
FxPow04(x) == Pow04In(x * x * FxOne, 0, 4 * FxOne)

\* sin on [0, pi/2], by its Taylor polynomial of degree 9.
SinTaylor(x) ==
    LET x2 == FxMul(x, x)
        t3 == FxMul(x, x2) \div 6
        t5 == FxMul(t3, x2) \div 20
        t7 == FxMul(t5, x2) \div 42
        t9 == FxMul(t7, x2) \div 72
    IN x - t3 + t5 - t7 + t9

\* f32::sin(PI * p / q), q > 0, reduced to the first quadrant.
SinPiFrac(p, q) ==
    LET a == Abs(p) % (2 * q)
        b == IF a > q THEN a - q ELSE a
        c == IF 2 * b > q THEN q - b ELSE b
        s == SinTaylor((c * PiFx) \div q)
        s1 == IF a > q THEN -s ELSE s
    IN IF p < 0 THEN -s1 ELSE s1

At(s, k) == s[k + 1]

(***************************************************************************)
(* misc::bessel_i0: the source of misc is not part of src/; the series is  *)
(* the one the specification gives, I0(x) = sum_k (x/2)^(2k) / (k!)^2,     *)
(* summed until a term vanishes.                                           *)
(***************************************************************************)
RECURSIVE BesselSum(_, _, _)
BesselSum(q, term, k) ==
    IF term = 0 THEN 0
    ELSE term + BesselSum(q, (term * q) \div (FxOne * k * k), k + 1)

bessel_i0(x) == BesselSum(FxMul(x \div 2, x \div 2), FxOne, 1)

(***************************************************************************)
(* misc::gcd, from the specification: Euclid's algorithm on u32, with      *)
(* gcd(a, 0) = a.                                                          *)
(***************************************************************************)
RECURSIVE gcd(_, _)
gcd(a, b) == IF b = 0 THEN a ELSE gcd(b, a % b)

(***************************************************************************)
(* A function of the source either returns a vector or panics.             *)
(***************************************************************************)
Ok(v) == [ok |-> TRUE, v |-> v, msg |-> "none"]
Panic(msg) == [ok |-> FALSE, v |-> << >>, msg |-> msg]

(***************************************************************************)
(* kaiser (dsp.rs 244-278).                                                *)
(***************************************************************************)
KaiserBeta(atten) ==
    IF atten > 50 THEN (1102 * (10 * atten - 87)) \div 100
    ELSE IF atten < 21 THEN 0
    ELSE (5842 * FxPow04(atten - 21)) \div 10000 + (7886 * (atten - 21)) \div 100

\* let mut length: i32 = ((atten - 8.) / (2.285 * PI*delta_w)).ceil() as i32 + 1;
\* 2.285 * PI = 7.1785
KaiserLength0(atten, delta_w) ==
    CeilDiv((atten - 8) * delta_w.den * 10000, 71785 * delta_w.num) + 1

KaiserLength(atten, delta_w) ==
    LET length == KaiserLength0(atten, delta_w)
    IN IF RustRem(length, 2) = 0 THEN length + 1 ELSE length

KaiserTap(beta, length, n) ==
    LET r == FxDiv(n * FxOne, (length * FxOne) \div 2)
    IN FxDiv(bessel_i0(FxMul(beta, FxSqrt(FxOne - FxMul(r, r)))), bessel_i0(beta))

\* Vec::with_capacity(length as usize) panics (capacity overflow) when the
\* i32 length is negative.
kaiser(atten, delta_w) ==
    LET beta == KaiserBeta(atten)
        length == KaiserLength(atten, delta_w)
        c == TruncDiv(length - 1, 2)
    IN IF length < 0 THEN Panic("capacity overflow")
       ELSE Ok([k \in 1..(2 * c + 1) |-> KaiserTap(beta, length, k - 1 - c)])

(***************************************************************************)
(* product (dsp.rs 160-170).                                               *)
(***************************************************************************)
product(v1, v2) ==
    IF Len(v1) # Len(v2) THEN Panic("Both vectors must have the same length")
    ELSE Ok([k \in 1..Len(v1) |-> FxMul(v1[k], v2[k])])

(***************************************************************************)
(* hilbert (dsp.rs 176-204).                                               *)
(***************************************************************************)
\* Faulty variant: the parity test written as n % 2 == 1, which no negative n passes.
HilbertIdeal_PositiveRem(n) ==
    IF RustRem(n, 2) = 1 THEN FxDiv(2 * FxOne, PiFx * n) ELSE 0

HilbertIdeal(n) ==
    IF RustRem(n, 2) # 0 THEN FxDiv(2 * FxOne, PiFx * n) ELSE 0

hilbert(atten, delta_w) ==
    LET window == kaiser(atten, delta_w)
    IN IF ~window.ok THEN window
       ELSE IF Len(window.v) % 2 = 0 THEN Panic("Kaiser window length should be odd")
       ELSE LET m == Len(window.v)
                c == TruncDiv(m - 1, 2)
            IN product([k \in 1..(2 * c + 1) |-> HilbertIdeal(k - 1 - c)], window.v)

(***************************************************************************)
(* lowpass (dsp.rs 210-238).                                               *)
(***************************************************************************)
LowpassIdeal(n, cutout) ==
    IF n = 0 THEN TruncDiv(cutout.num * FxOne, cutout.den)
    ELSE FxDiv(SinPiFrac(n * cutout.num, cutout.den), n * PiFx)

lowpass(cutout, atten, delta_w) ==
    LET window == kaiser(atten, delta_w)
    IN IF ~window.ok THEN window
       ELSE IF Len(window.v) % 2 = 0 THEN Panic("Kaiser window length should be odd")
       ELSE LET m == Len(window.v)
                c == TruncDiv(m - 1, 2)
            IN product([k \in 1..(2 * c + 1) |-> LowpassIdeal(k - 1 - c, cutout)],
                       window.v)

(***************************************************************************)
(* The inputs the operations are called with.                              *)
(***************************************************************************)
Samples == {-FxOne, (3 * FxOne) \div 2}
Signals == UNION {[1..k -> Samples] : k \in 0..MaxLen}
Coeffs == UNION {[1..k -> Samples] : k \in 0..MaxTaps}
\* <<atten, delta_w>>: kaiser panics on the first and builds windows of
\* 1, 3, 7, 17 and 11 taps on the others.
DesignParams ==
    {<<1, [num |-> 3, den |-> 10]>>, <<1, [num |-> 9, den |-> 10]>>,
     <<20, [num |-> 9, den |-> 10]>>, <<40, [num |-> 9, den |-> 10]>>,
     <<40, [num |-> 3, den |-> 10]>>, <<60, [num |-> 9, den |-> 10]>>}
RatePairs == (1..MaxRate) \X (1..MaxRate)
\* The rates of an APT recording, resampled on a signal of at most one sample.
ResampleToInputs ==
    (Signals \X RatePairs)
        \cup ({x \in Signals : Len(x) <= 1} \X {<<48000, 11025>>})
NoRatio == [num |-> 0, den |-> 1]
Zeros(k) == [x \in 1..k |-> 0]

(***************************************************************************)
(* State: the running operation, its position, and the arguments and       *)
(* locals of the functions of dsp.rs, under their names in the source.     *)
(***************************************************************************)
VARIABLES op, pc, err, signal, l, m, atten, delta_w, cutout, input_rate,
          output_rate, f, offset, t, n, sum, output, coeff, i, j, window,
          h_filter, imag, delay

vars == <<op, pc, err, signal, l, m, atten, delta_w, cutout, input_rate,
          output_rate, f, offset, t, n, sum, output, coeff, i, j, window,
          h_filter, imag, delay>>

rateVars == <<input_rate, output_rate>>
resampleLocals == <<f, offset, t, n>>
demodVars == <<h_filter, imag, delay>>
designVars == <<cutout, window>>

Init ==
    /\ op = "idle" /\ pc = "idle" /\ err = "none"
    /\ signal = << >> /\ l = 0 /\ m = 0 /\ atten = 0 /\ delta_w = NoRatio
    /\ cutout = NoRatio /\ input_rate = 0 /\ output_rate = 0
    /\ f = << >> /\ offset = 0 /\ t = 0 /\ n = 0 /\ sum = 0 /\ output = << >>
    /\ coeff = << >> /\ i = 0 /\ j = 0 /\ window = << >>
    /\ h_filter = << >> /\ imag = << >> /\ delay = 0

(***************************************************************************)
(* resample (dsp.rs 49-118).                                               *)
(***************************************************************************)
NeedsInterpolation(ll) == ll > 1

\* Lines 52-67 and 105-107: up to the first test of a loop.
ResampleEntry(x, ll, mm, a, dw) ==
    /\ signal' = x /\ l' = ll /\ m' = mm /\ atten' = a /\ delta_w' = dw
    /\ t' = 0 /\ n' = 0 /\ sum' = 0 /\ output' = << >> /\ i' = 0
    /\ IF NeedsInterpolation(ll)
       THEN LET flt == lowpass([num |-> 1, den |-> ll], a, dw)
            IN IF flt.ok
               THEN /\ f' = flt.v
                    /\ offset' = (Len(flt.v) - 1) \div 2
                    /\ pc' = "outer" /\ err' = "none"
               ELSE /\ f' = << >> /\ offset' = 0
                    /\ pc' = "panic" /\ err' = flt.msg
       ELSE /\ f' = << >> /\ offset' = 0
            /\ pc' = "decimate" /\ err' = "none"

CallResample ==
    /\ pc = "idle"
    /\ \E x \in Signals, ll \in 1..MaxL, mm \in 1..MaxM, d \in DesignParams :
          ResampleEntry(x, ll, mm, d[1], d[2])
    /\ op' = "resample"
    /\ UNCHANGED <<rateVars, coeff, j, demodVars, designVars>>

\* resample_to (dsp.rs 26-37).
\* Faulty variant: the interpolation factor taken from the input rate.
RateL_FromInput(in, out) == in \div gcd(in, out)

RateL(in, out) == out \div gcd(in, out)
RateM(in, out) == in \div gcd(in, out)
DefaultAtten == 40
DefaultDeltaW(ll) == [num |-> 2, den |-> 10 * ll]

CallResampleTo ==
    /\ pc = "idle"
    /\ \E c \in ResampleToInputs :
          LET x == c[1]
              r == c[2]
          IN /\ input_rate' = r[1] /\ output_rate' = r[2]
             /\ ResampleEntry(x, RateL(r[1], r[2]), RateM(r[1], r[2]), DefaultAtten,
                              DefaultDeltaW(RateL(r[1], r[2])))
    /\ op' = "resample_to"
    /\ UNCHANGED <<coeff, j, demodVars, designVars>>

InResample == op \in {"resample", "resample_to"}

\* Faulty variant: the outer loop running one step too far.
OuterGuard_Inclusive(tt, len, ll) == tt <= len * ll

\* while t < signal.len()*l
OuterGuard(tt, len, ll) == tt < len * ll

\* Faulty variant: the window start subtracted whenever t is positive.
StartGuard_Positive(tt, off) == tt > 0

\* if t > offset
StartGuard(tt, off) == tt > off

\* Faulty variant: the jump to the first multiple of l left out.
FirstInWindow_NoJump(tt, off, ll) == tt - off

\* n = t - offset; match n % l { 0 => (), x => n += l - x }.  A negative
\* difference is the usize subtraction overflowing.
FirstInWindow(tt, off, ll) ==
    LET n0 == tt - off
    IN IF n0 % ll = 0 THEN n0 ELSE n0 + (ll - (n0 % ll))

\* while n <= t + offset
InnerGuard(nn, tt, off) == nn <= tt + off

\* f[n+offset-t]
TapIndex(nn, tt, off) == nn + off - tt

ResampleOuter ==
    /\ InResample /\ pc = "outer"
    /\ IF OuterGuard(t, Len(signal), l)
       THEN IF StartGuard(t, offset)
            THEN IF t - offset < 0
                 THEN /\ pc' = "panic" /\ err' = "attempt to subtract with overflow"
                      /\ UNCHANGED <<n, sum>>
                 ELSE /\ n' = FirstInWindow(t, offset, l) /\ sum' = 0
                      /\ pc' = "inner" /\ UNCHANGED err
            ELSE /\ n' = 0 /\ sum' = 0 /\ pc' = "inner" /\ UNCHANGED err
       ELSE /\ pc' = "done" /\ UNCHANGED <<err, n, sum>>
    /\ UNCHANGED <<op, signal, l, m, atten, delta_w, rateVars, f, offset, t, output,
                   coeff, i, j, demodVars, designVars>>

ResampleInner ==
    /\ InResample /\ pc = "inner"
    /\ IF InnerGuard(n, t, offset)
       THEN /\ IF n \div l < Len(signal)
               THEN LET idx == TapIndex(n, t, offset)
                    IN IF idx < 0
                       THEN /\ pc' = "panic"
                            /\ err' = "attempt to subtract with overflow"
                            /\ UNCHANGED <<sum, n>>
                       ELSE IF idx >= Len(f)
                       THEN /\ pc' = "panic" /\ err' = "index out of bounds"
                            /\ UNCHANGED <<sum, n>>
                       ELSE /\ sum' = sum + FxMul(At(f, idx), At(signal, n \div l))
                            /\ n' = n + l
                            /\ UNCHANGED <<pc, err>>
               ELSE /\ n' = n + l /\ UNCHANGED <<pc, err, sum>>
            /\ UNCHANGED <<output, t>>
       ELSE /\ output' = Append(output, sum)
            /\ t' = t + m
            /\ pc' = "outer"
            /\ UNCHANGED <<err, sum, n>>
    /\ UNCHANGED <<op, signal, l, m, atten, delta_w, rateVars, f, offset,
                   coeff, i, j, demodVars, designVars>>

\* for i in 0..signal.len()/m { decimated.push(signal[i*m]); }
DecimatedLen(len, mm) == len \div mm
\* Faulty variant: the stride left out of the index.
DecimateIndex_NoStride(ii, mm) == ii

DecimateIndex(ii, mm) == ii * mm

Decimate ==
    /\ InResample /\ pc = "decimate"
    /\ IF i < DecimatedLen(Len(signal), m)
       THEN IF DecimateIndex(i, m) >= Len(signal)
            THEN /\ pc' = "panic" /\ err' = "index out of bounds"
                 /\ UNCHANGED <<output, i>>
            ELSE /\ output' = Append(output, At(signal, DecimateIndex(i, m)))
                 /\ i' = i + 1
                 /\ UNCHANGED <<pc, err>>
       ELSE /\ pc' = "done" /\ UNCHANGED <<err, output, i>>
    /\ UNCHANGED <<op, signal, l, m, atten, delta_w, rateVars, resampleLocals, sum,
                   coeff, j, demodVars, designVars>>

(***************************************************************************)
(* filter (dsp.rs 140-157).                                                *)
(***************************************************************************)
CallFilter ==
    /\ pc = "idle"
    /\ \E x \in Signals, h \in Coeffs :
          /\ signal' = x /\ coeff' = h /\ output' = Zeros(Len(x))
    /\ op' = "filter" /\ pc' = "f_outer" /\ i' = 0
    /\ UNCHANGED <<err, l, m, atten, delta_w, rateVars, resampleLocals, sum, j,
                   demodVars, designVars>>

\* Faulty variant: the textbook boundary i >= j.
FilterGuard_Inclusive(ii, jj) == ii >= jj

\* if i > j
FilterGuard(ii, jj) == ii > jj

InFilter == op \in {"filter", "demodulate"}

FilterOuter ==
    /\ InFilter /\ pc = "f_outer"
    /\ IF i < Len(signal)
       THEN /\ sum' = 0 /\ j' = 0 /\ pc' = "f_inner"
            /\ UNCHANGED <<output, i, imag, delay>>
       ELSE \* filter returns; demodulate goes on at line 125
            IF op = "demodulate"
            THEN /\ imag' = output
                 /\ delay' = Len(h_filter) \div 2
                 /\ output' = Zeros(Len(signal))
                 /\ i' = 0 /\ pc' = "d_loop"
                 /\ UNCHANGED <<sum, j>>
            ELSE /\ pc' = "done" /\ UNCHANGED <<output, i, imag, delay, sum, j>>
    /\ UNCHANGED <<op, err, signal, l, m, atten, delta_w, rateVars, resampleLocals,
                   coeff, h_filter, designVars>>

FilterInner ==
    /\ InFilter /\ pc = "f_inner"
    /\ IF j < Len(coeff)
       THEN /\ IF FilterGuard(i, j)
               THEN IF i - j < 0 \/ i - j >= Len(signal)
                    THEN /\ pc' = "panic" /\ err' = "index out of bounds"
                         /\ UNCHANGED <<sum, j>>
                    ELSE /\ sum' = sum + FxMul(At(signal, i - j), At(coeff, j))
                         /\ j' = j + 1
                         /\ UNCHANGED <<pc, err>>
               ELSE /\ j' = j + 1 /\ UNCHANGED <<pc, err, sum>>
            /\ UNCHANGED <<output, i>>
       ELSE /\ output' = [output EXCEPT ![i + 1] = sum]
            /\ i' = i + 1
            /\ pc' = "f_outer"
            /\ UNCHANGED <<err, sum, j>>
    /\ UNCHANGED <<op, signal, l, m, atten, delta_w, rateVars, resampleLocals,
                   coeff, demodVars, designVars>>

(***************************************************************************)
(* demodulate (dsp.rs 121-137).                                            *)
(***************************************************************************)
CallDemodulate ==
    /\ pc = "idle"
    /\ \E x \in Signals, d \in DesignParams :
          LET h == hilbert(d[1], d[2])
          IN /\ signal' = x /\ atten' = d[1] /\ delta_w' = d[2]
             /\ IF h.ok
                THEN /\ h_filter' = h.v /\ coeff' = h.v
                     /\ output' = Zeros(Len(x))
                     /\ pc' = "f_outer" /\ err' = "none"
                ELSE /\ h_filter' = << >> /\ coeff' = << >> /\ output' = << >>
                     /\ pc' = "panic" /\ err' = h.msg
    /\ op' = "demodulate" /\ i' = 0
    /\ UNCHANGED <<l, m, rateVars, resampleLocals, sum, j, imag, delay, designVars>>

\* Faulty variant: the first valid sample skipped.
DelayGuard_Strict(ii, d) == ii > d

\* if i >= delay
DelayGuard(ii, d) == ii >= d

\* (imag[i].powi(2) + signal[i-delay].powi(2)).sqrt()
Envelope(q, x) == FxSqrt(FxMul(q, q) + FxMul(x, x))

DemodLoop ==
    /\ op = "demodulate" /\ pc = "d_loop"
    /\ IF i < Len(signal)
       THEN IF DelayGuard(i, delay)
            THEN IF i - delay < 0 \/ i >= Len(imag)
                 THEN /\ pc' = "panic" /\ err' = "index out of bounds"
                      /\ UNCHANGED <<output, i>>
                 ELSE /\ output' = [output EXCEPT
                                      ![i + 1] = Envelope(At(imag, i), At(signal, i - delay))]
                      /\ i' = i + 1
                      /\ UNCHANGED <<pc, err>>
            ELSE /\ i' = i + 1 /\ UNCHANGED <<pc, err, output>>
       ELSE /\ pc' = "done" /\ UNCHANGED <<err, output, i>>
    /\ UNCHANGED <<op, signal, l, m, atten, delta_w, rateVars, resampleLocals, sum,
                   coeff, j, demodVars, designVars>>

(***************************************************************************)
(* The filter designs, called on their own.                                *)
(***************************************************************************)
Design(name, r, w, a, dw, c) ==
    /\ pc = "idle"
    /\ op' = name /\ atten' = a /\ delta_w' = dw /\ cutout' = c
    /\ window' = w.v
    /\ output' = r.v /\ err' = r.msg
    /\ pc' = IF r.ok THEN "done" ELSE "panic"
    /\ UNCHANGED <<signal, l, m, rateVars, resampleLocals, sum, coeff, i, j, demodVars>>

CallKaiser ==
    \E d \in DesignParams :
       Design("kaiser", kaiser(d[1], d[2]), kaiser(d[1], d[2]), d[1], d[2], NoRatio)

CallHilbert ==
    \E d \in DesignParams :
       Design("hilbert", hilbert(d[1], d[2]), kaiser(d[1], d[2]), d[1], d[2], NoRatio)

CallLowpass ==
    \E d \in DesignParams, ll \in 2..MaxL :
       Design("lowpass", lowpass([num |-> 1, den |-> ll], d[1], d[2]),
              kaiser(d[1], d[2]), d[1], d[2], [num |-> 1, den |-> ll])

Next ==
    \/ CallResample
    \/ CallResampleTo
    \/ ResampleOuter
    \/ ResampleInner
    \/ Decimate
    \/ CallFilter
    \/ FilterOuter
    \/ FilterInner
    \/ CallDemodulate
    \/ DemodLoop
    \/ CallKaiser
    \/ CallHilbert
    \/ CallLowpass

Spec == Init /\ [][Next]_vars

\* The code is sequential: a call that has started runs on to its return.
FairSpec == Spec /\ WF_vars(Next)

(***************************************************************************)
(* Reference definitions the claims compare the code with.                 *)
(***************************************************************************)
\* The zero-stuffed signal: u[k] = x[k/L] at the multiples of L inside x.
Upsampled(k) ==
    IF k % l = 0 /\ k \div l < Len(signal) THEN At(signal, k \div l) ELSE 0

\* The sum of h[k+offset-tt]*u[k] over every k in lo..hi.
RECURSIVE RefSum(_, _, _)
RefSum(lo, hi, tt) ==
    IF lo > hi THEN 0
    ELSE IF lo = hi THEN FxMul(At(f, lo + offset - tt), Upsampled(lo))
    ELSE LET mid == (lo + hi) \div 2
         IN RefSum(lo, mid, tt) + RefSum(mid + 1, hi, tt)

RefSample(k) ==
    LET tt == k * m
    IN RefSum(IF tt - offset > 0 THEN tt - offset ELSE 0, tt + offset, tt)

\* The sum of h[k]*x[ii-k] over the k in lo..hi with k < ii.
RECURSIVE ConvSum(_, _, _, _, _)
ConvSum(x, h, ii, lo, hi) ==
    IF lo > hi THEN 0
    ELSE (IF lo < ii THEN FxMul(At(x, ii - lo), At(h, lo)) ELSE 0)
            + ConvSum(x, h, ii, lo + 1, hi)

FilterValue(x, h, ii) == ConvSum(x, h, ii, 0, Len(h) - 1)

Interpolating == InResample /\ NeedsInterpolation(l)
ArithmeticPanics == {"attempt to subtract with overflow", "index out of bounds"}

(***************************************************************************)
(* C1: every sample the interpolating branch of resample emits (the k-th   *)
(* at t = k*M) equals the reference zero-stuff, filter, downsample value:  *)
(* the sum over all n in [max(0, t-offset), t+offset] of h[n+offset-t]*u[n].*)
(* It is checked on the sample just pushed and on all of them at return.   *)
(***************************************************************************)
C1_ResampleMatchesReference ==
    Interpolating =>
        /\ (pc = "outer" /\ Len(output) > 0) =>
              output[Len(output)] = RefSample(Len(output) - 1)
        /\ pc = "done" =>
              \A k \in 0..(Len(output) - 1) : At(output, k) = RefSample(k)

C1_Witness ==
    /\ op = "resample" /\ pc = "done"
    /\ l = 3 /\ m = 2 /\ Len(signal) = 3 /\ offset >= 3
    /\ Len(output) = 5 /\ output[5] # 0 /\ output[1] # 0

(***************************************************************************)
(* C2: the interpolating branch of resample terminates, and has then       *)
(* emitted exactly ceil(|x|*L / M) samples, one per multiple of M strictly *)
(* below |x|*L.                                                            *)
(***************************************************************************)
MultiplesBelow(mm, bound) == {k \in 0..(bound - 1) : k % mm = 0}

C2_InterpolationTerminatesWithCeilCount ==
    (Interpolating /\ pc \in {"outer", "inner"})
        ~> (/\ Interpolating /\ pc = "done"
            /\ Len(output) = CeilDiv(Len(signal) * l, m)
            /\ Len(output) = Cardinality(MultiplesBelow(m, Len(signal) * l)))

C2_Witness ==
    /\ Interpolating /\ pc = "done"
    /\ Len(signal) = 3 /\ l = 2 /\ m = 3 /\ Len(output) = 2 /\ t = 6

(***************************************************************************)
(* C3: with L = 1 resample designs no filter and returns y[i] = x[i*M] for *)
(* i = 0 .. floor(|x|/M)-1, whatever atten and delta_w are; with M = 1 it  *)
(* returns x.                                                              *)
(***************************************************************************)
C3_DecimationCopiesEveryMth ==
    (InResample /\ l = 1) =>
        /\ pc \in {"decimate", "done"}
        /\ err = "none" /\ f = << >>
        /\ Len(output) <= Len(signal) \div m
        /\ \A k \in 0..(Len(output) - 1) : At(output, k) = At(signal, k * m)
        /\ pc = "done" =>
              /\ Len(output) = Len(signal) \div m
              /\ m = 1 => output = signal

C3_Witness ==
    /\ op = "resample" /\ l = 1 /\ m = 2 /\ pc = "done"
    /\ Len(signal) = 4 /\ Len(output) = 2
    /\ output[1] = signal[1] /\ output[2] = signal[3] /\ signal[2] # signal[3]
    /\ atten = 1 /\ delta_w.num = 3

(***************************************************************************)
(* C4: resample(x, L, L, atten, delta_w), L >= 2, has the length of x and  *)
(* equals x sample for sample outside the first and the last               *)
(* ((|h|-1)/2)/L output samples.                                           *)
(***************************************************************************)
C4_EqualFactorsReturnSignal ==
    (op = "resample" /\ NeedsInterpolation(l) /\ l = m /\ pc = "done") =>
        /\ Len(output) = Len(signal)
        /\ \A k \in 0..(Len(output) - 1) :
              (offset \div l <= k /\ k < Len(output) - offset \div l) =>
                  At(output, k) = At(signal, k)

(***************************************************************************)
(* C5: filter returns a signal as long as x with y[i] the sum of           *)
(* h[j]*x[i-j] over exactly the j in [0, |h|) with j < i, so that y[0] = 0 *)
(* and x[0] contributes nowhere, and it reads no index outside x or h.     *)
(***************************************************************************)
C5_FilterStrictCausalSum ==
    (op = "filter") =>
        /\ pc # "panic" /\ err = "none"
        /\ Len(output) = Len(signal)
        /\ pc = "done" =>
              /\ \A k \in 0..(Len(signal) - 1) :
                    /\ At(output, k) = FilterValue(signal, coeff, k)
                    /\ At(output, k) = FilterValue([signal EXCEPT ![1] = 0], coeff, k)
              /\ Len(signal) > 0 => At(output, 0) = 0

C5_Witness ==
    /\ op = "filter" /\ pc = "done"
    /\ Len(signal) = 3 /\ Len(coeff) = 2
    /\ output[1] = 0 /\ output[2] = FxMul(signal[2], coeff[1])
    /\ output[3] = FxMul(signal[3], coeff[1]) + FxMul(signal[2], coeff[2])

C7_KaiserLengthOdd ==
    (op \in {"kaiser", "lowpass", "hilbert"}) =>
        LET l0 == KaiserLength0(atten, delta_w)
        IN /\ pc = "done"
           /\ Len(output) >= 1
           /\ Len(output) % 2 = 1
           /\ Len(output) = IF l0 % 2 = 1 THEN l0 ELSE l0 + 1
           /\ err # "Kaiser window length should be odd"

(***************************************************************************)
(* C8: the taps hilbert returns are antisymmetric about the centre,        *)
(* h[k] = -h[M-1-k]; the centre tap is 0; the taps at an even distance     *)
(* from the centre are 0 and the tap at an odd distance n, negative n      *)
(* included, is 2/(pi*n) times the window tap.                             *)
(***************************************************************************)
C8_HilbertAntisymmetric ==
    (op = "hilbert" /\ pc = "done") =>
        LET M == Len(output)
            c == (M - 1) \div 2
        IN /\ M % 2 = 1 /\ M = Len(window)
           /\ At(output, c) = 0
           /\ \A k \in 0..(M - 1) :
                 /\ At(output, k) = -At(output, M - 1 - k)
                 /\ IF Abs(k - c) % 2 = 0
                    THEN At(output, k) = 0
                    ELSE At(output, k) =
                            FxMul(FxDiv(2 * FxOne, PiFx * (k - c)), At(window, k))

C8_Witness ==
    /\ op = "hilbert" /\ pc = "done"
    /\ Len(output) = 7
    /\ output[1] < 0 /\ output[3] < 0 /\ output[5] > 0 /\ output[7] > 0

(***************************************************************************)
(* C9: resample_to calls resample with L = output_rate/g and               *)
(* M = input_rate/g, g = gcd(input_rate, output_rate): L and M are         *)
(* positive and coprime, L*input_rate = M*output_rate (48000 -> 11025      *)
(* gives L = 147, M = 640), atten = 40 and delta_w = 0.2/L; equal rates    *)
(* give L = M = 1 and return the input unchanged.                          *)
(***************************************************************************)
C9_ResampleToReducesRates ==
    (op = "resample_to") =>
        /\ l >= 1 /\ m >= 1
        /\ \A d \in 2..l : ~(l % d = 0 /\ m % d = 0)
        /\ l * (input_rate \div m) = output_rate
        /\ m * (output_rate \div l) = input_rate
        /\ (input_rate = 48000 /\ output_rate = 11025) => (l = 147 /\ m = 640)
        /\ atten = 40
        /\ 10 * l * delta_w.num = 2 * delta_w.den
        /\ input_rate = output_rate =>
              /\ l = 1 /\ m = 1
              /\ pc = "done" => output = signal

C9_Witness ==
    /\ op = "resample_to" /\ pc = "done"
    /\ input_rate = 48000 /\ output_rate = 11025
    /\ l = 147 /\ m = 640 /\ Len(signal) = 1 /\ Len(output) = 1

(***************************************************************************)
(* C10: in the interpolating branch of resample no subtraction underflows  *)
(* (t - offset is taken only when t > offset), n is a multiple of L        *)
(* whenever a product is accumulated, and the tap index n + offset - t     *)
(* lies in [0, |h|-1]: no out-of-bounds read, no arithmetic panic.         *)
(***************************************************************************)
C10_InterpolationIndicesInRange ==
    Interpolating =>
        /\ err \notin ArithmeticPanics
        /\ pc # "panic" =>
              /\ Len(f) % 2 = 1 /\ Len(f) = 2 * offset + 1
              /\ (pc = "inner" /\ InnerGuard(n, t, offset)) =>
                    /\ n % l = 0
                    /\ n >= t - offset
                    /\ TapIndex(n, t, offset) \in 0..(Len(f) - 1)

C10_Witness ==
    /\ op = "resample" /\ pc = "inner"
    /\ t > offset /\ (t - offset) % l # 0 /\ offset >= 1
    /\ n = FirstInWindow(t, offset, l) /\ n \div l < Len(signal)
    /\ TapIndex(n, t, offset) > 0

=============================================================================
